---- MODULE Spec2Model ----
(***************************************************************************)
(* Model of firebase_signin.py: a command-line script that signs in to an  *)
(* identity service with an email and a password, falls back to sign-up    *)
(* when the sign-in reply is not 200, and prints the returned idToken.     *)
(*                                                                         *)
(* One process run is the sequence                                         *)
(*   Invoke -> CheckArgs -> SignIn -> (SignUp | SkipSignUp)                *)
(*          -> (PrintToken | PrintError)                                   *)
(* and any step may end the run early by an uncaught exception.            *)
(* Text written to a stream is kept as a sequence of writes, each write    *)
(* being the sequence of lines it puts on the stream.                      *)
(***************************************************************************)
EXTENDS Integers, Sequences, FiniteSets, TLC

VARIABLES
    pc,         \* position of the process in the script
    runs,       \* number of invocations so far
    argv,       \* sys.argv of the current run (argv[1] is the script name)
    EMAIL,      \* module-level EMAIL
    PASSWORD,   \* module-level PASSWORD
    response,   \* module-level response (the reply to the last post)
    calls,      \* the posts made by the current run: url, JSON body, reply, and
                \* the accounts the service knew when the request arrived
    stdout,     \* writes to standard output by the current run
    stderr,     \* writes to standard error by the current run
    exitCode,   \* exit status of the current run, -1 while it is running
    mode,       \* "mock": replies are arbitrary; "identity": a service with accounts
    accounts,   \* identity service: email -> registered password
    provisioned \* identity service: emails registered by a sign-up of this script

vars == <<pc, runs, argv, EMAIL, PASSWORD, response, calls, stdout, stderr,
          exitCode, mode, accounts, provisioned>>

----------------------------------------------------------------------------
(* Bounds and input sets *)

MaxRuns == 2
MaxBodyLines == 2

Script == "firebase_signin.py"
Emails == {"a@x.io", "b@x.io"}
PasswordArgs == {"pw1", ""}
DefaultPassword == "123456"
Passwords == PasswordArgs \cup {DefaultPassword}
Unregistered == "<unregistered>"

Argvs ==
    {<<Script>>}
    \cup {<<Script, e>> : e \in Emails}
    \cup {<<Script, e, p>> : e \in Emails, p \in PasswordArgs}
    \cup {<<Script, "a@x.io", "pw1", "extra">>}

SignInUrl == "https://identitytoolkit.googleapis.com/v1/accounts:signInWithPassword"
SignUpUrl == "https://identitytoolkit.googleapis.com/v1/accounts:signUp"

Statuses == {200, 201, 400}
LineTexts == {"a", "b"}
Tokens == {"T1", "T2"}

RECURSIVE SeqsOfLen(_, _)
SeqsOfLen(S, n) ==
    IF n = 0 THEN {<< >>}
    ELSE {Append(s, x) : s \in SeqsOfLen(S, n - 1), x \in S}

\* A response body, split at its line breaks: one or more lines.
Bodies == UNION {SeqsOfLen(LineTexts, n) : n \in 1..MaxBodyLines}

\* What response.json() followed by ["idToken"] finds in a body.
Datas ==
    {[kind |-> "token", idToken |-> t] : t \in Tokens}
    \cup {[kind |-> "no_token", idToken |-> ""], [kind |-> "not_json", idToken |-> ""]}

\* The outcome of one requests.post: a response, or an exception raised by
\* the transport.
Raised == [raised |-> TRUE, status_code |-> 0, text |-> <<"">>,
           data |-> [kind |-> "not_json", idToken |-> ""]]
NoResponse == [raised |-> FALSE, status_code |-> 0, text |-> <<"">>,
               data |-> [kind |-> "not_json", idToken |-> ""]]

MockReplies ==
    [raised : {FALSE}, status_code : Statuses, text : Bodies, data : Datas]
    \cup {Raised}

----------------------------------------------------------------------------
(* The identity service: the remote side of the two endpoints *)

Granted(t) == [raised |-> FALSE, status_code |-> 200, text |-> <<"a">>,
               data |-> [kind |-> "token", idToken |-> t]]
Refused == [raised |-> FALSE, status_code |-> 400, text |-> <<"a", "b">>,
            data |-> [kind |-> "no_token", idToken |-> ""]]

IdentityReplies(url, json) ==
    IF url = SignInUrl
    THEN IF accounts[json.email] = json.password
         THEN {Granted(t) : t \in Tokens}
         ELSE {Refused}
    ELSE IF accounts[json.email] = Unregistered
         THEN {Granted(t) : t \in Tokens}
         ELSE {Refused}

Replies(url, json) ==
    IF mode = "identity" THEN IdentityReplies(url, json) ELSE MockReplies

Registers(url, reply) ==
    mode = "identity" /\ url = SignUpUrl /\ ~reply.raised /\ reply.status_code = 200

AccountsAfter(url, json, reply) ==
    IF Registers(url, reply)
    THEN [accounts EXCEPT ![json.email] = json.password]
    ELSE accounts

ProvisionedAfter(url, json, reply) ==
    IF Registers(url, reply) THEN provisioned \cup {json.email} ELSE provisioned

----------------------------------------------------------------------------
(* The script *)

\* line 6: len(sys.argv) < 2
MissingEmail(args) == Len(args) < 2

\* line 7
UsageMessage == <<"Usage: python3 firebase_signin.py <email> [password]">>

\* Variant of PasswordOf: sys.argv[2] or "123456".
PasswordOfTruthy(args) ==
    IF Len(args) > 2 /\ args[3] # "" THEN args[3] ELSE DefaultPassword

\* line 11: sys.argv[2] if len(sys.argv) > 2 else "123456"
PasswordOf(args) == IF Len(args) > 2 THEN args[3] ELSE DefaultPassword

\* Variant of SignInPayload: the default password in place of PASSWORD.
SignInPayloadDefault(email, password) ==
    [email |-> email, password |-> DefaultPassword, returnSecureToken |-> TRUE]

\* lines 16-20: the JSON body of the sign-in request
SignInPayload(email, password) ==
    [email |-> email, password |-> password, returnSecureToken |-> TRUE]

\* lines 25-29: the JSON body of the sign-up request
SignUpPayload(email, password) ==
    [email |-> email, password |-> password, returnSecureToken |-> TRUE]

\* Variants of NeedsSignUp: unconditional, and the 2xx range.
NeedsSignUpAlways(resp) == TRUE

NeedsSignUpNon2xx(resp) == resp.status_code \notin 200..299

\* line 23: response.status_code != 200
NeedsSignUp(resp) == resp.status_code # 200

\* line 31: response.status_code == 200
IsSuccess(resp) == resp.status_code = 200

\* Variant of TokenMessage: print(data).
TokenMessageWholeData(data) == <<"{'idToken': '" \o data.idToken \o "'}">>

\* line 33: print(data["idToken"]) writes the token and a line break
TokenMessage(data) == <<data.idToken>>

\* line 35: print(f"Error: {response.text}") writes the prefix, the raw body
\* and a line break; a body of n lines gives n lines.
ErrorMessage(resp) == <<"Error: " \o Head(resp.text)>> \o Tail(resp.text)

\* An uncaught exception: the interpreter writes a traceback to standard
\* error (header, frames, exception line) and the process exits with 1.
Traceback(exc) == <<"Traceback (most recent call last):", exc>>

\* line 36 and line 8: sys.exit(1)
FailureExit == 1

Invoke ==
    /\ pc \in {"idle", "done"}
    /\ runs < MaxRuns
    /\ \E args \in Argvs :
        /\ argv' = args
        /\ runs' = runs + 1
        /\ pc' = "check"
        /\ EMAIL' = ""
        /\ PASSWORD' = ""
        /\ response' = NoResponse
        /\ calls' = << >>
        /\ stdout' = << >>
        /\ stderr' = << >>
        /\ exitCode' = -1
    /\ UNCHANGED <<mode, accounts, provisioned>>

\* Variant of CheckArgs: the usage print without file=sys.stderr.
CheckArgsStdout ==
    /\ pc = "check"
    /\ IF MissingEmail(argv)
       THEN /\ stdout' = Append(stdout, UsageMessage)
            /\ exitCode' = FailureExit
            /\ pc' = "done"
            /\ UNCHANGED <<EMAIL, PASSWORD>>
       ELSE /\ EMAIL' = argv[2]
            /\ PASSWORD' = PasswordOf(argv)
            /\ pc' = "signin"
            /\ UNCHANGED <<stdout, exitCode>>
    /\ UNCHANGED <<runs, argv, response, calls, stderr, mode, accounts, provisioned>>

\* lines 6-11
CheckArgs ==
    /\ pc = "check"
    /\ IF MissingEmail(argv)
       THEN /\ stderr' = Append(stderr, UsageMessage)
            /\ exitCode' = FailureExit
            /\ pc' = "done"
            /\ UNCHANGED <<EMAIL, PASSWORD>>
       ELSE /\ EMAIL' = argv[2]
            /\ PASSWORD' = PasswordOf(argv)
            /\ pc' = "signin"
            /\ UNCHANGED <<stderr, exitCode>>
    /\ UNCHANGED <<runs, argv, response, calls, stdout, mode, accounts, provisioned>>

\* requests.post(url, json=json): the request goes out, and either a
\* response comes back and is bound to response, or the transport raises.
Post(url, json, next) ==
    \E reply \in Replies(url, json) :
        /\ calls' = Append(calls, [url |-> url, json |-> json, reply |-> reply,
                                   known |-> accounts])
        /\ accounts' = AccountsAfter(url, json, reply)
        /\ provisioned' = ProvisionedAfter(url, json, reply)
        /\ IF reply.raised
           THEN /\ stderr' = Append(stderr, Traceback("requests.exceptions.ConnectionError"))
                /\ exitCode' = 1
                /\ pc' = "done"
                /\ UNCHANGED response
           ELSE /\ response' = reply
                /\ pc' = next
                /\ UNCHANGED <<stderr, exitCode>>

\* lines 15-20
SignIn ==
    /\ pc = "signin"
    /\ Post(SignInUrl, SignInPayload(EMAIL, PASSWORD), "fallback")
    /\ UNCHANGED <<runs, argv, EMAIL, PASSWORD, stdout, mode>>

\* Variant of SignUp: the sign-up post without rebinding response.
SignUpDropsReply ==
    /\ pc = "fallback"
    /\ NeedsSignUp(response)
    /\ \E reply \in Replies(SignUpUrl, SignUpPayload(EMAIL, PASSWORD)) :
        /\ calls' = Append(calls, [url |-> SignUpUrl,
                                   json |-> SignUpPayload(EMAIL, PASSWORD),
                                   reply |-> reply, known |-> accounts])
        /\ accounts' = AccountsAfter(SignUpUrl, SignUpPayload(EMAIL, PASSWORD), reply)
        /\ provisioned' = ProvisionedAfter(SignUpUrl, SignUpPayload(EMAIL, PASSWORD), reply)
        /\ IF reply.raised
           THEN /\ stderr' = Append(stderr, Traceback("requests.exceptions.ConnectionError"))
                /\ exitCode' = 1
                /\ pc' = "done"
           ELSE /\ pc' = "report"
                /\ UNCHANGED <<stderr, exitCode>>
    /\ UNCHANGED <<runs, argv, EMAIL, PASSWORD, response, stdout, mode>>

\* lines 23-29, condition true
SignUp ==
    /\ pc = "fallback"
    /\ NeedsSignUp(response)
    /\ Post(SignUpUrl, SignUpPayload(EMAIL, PASSWORD), "report")
    /\ UNCHANGED <<runs, argv, EMAIL, PASSWORD, stdout, mode>>

\* line 23, condition false
SkipSignUp ==
    /\ pc = "fallback"
    /\ ~NeedsSignUp(response)
    /\ pc' = "report"
    /\ UNCHANGED <<runs, argv, EMAIL, PASSWORD, response, calls, stdout, stderr,
                   exitCode, mode, accounts, provisioned>>

\* Variant of PrintToken: data.get("idToken") in place of data["idToken"].
PrintTokenGet ==
    /\ pc = "report"
    /\ IsSuccess(response)
    /\ IF response.data.kind = "not_json"
       THEN /\ stderr' = Append(stderr, Traceback("requests.exceptions.JSONDecodeError"))
            /\ exitCode' = 1
            /\ UNCHANGED stdout
       ELSE /\ stdout' = Append(stdout,
                    IF response.data.kind = "token"
                    THEN TokenMessage(response.data) ELSE <<"None">>)
            /\ exitCode' = 0
            /\ UNCHANGED stderr
    /\ pc' = "done"
    /\ UNCHANGED <<runs, argv, EMAIL, PASSWORD, response, calls, mode, accounts,
                   provisioned>>

\* lines 31-33: response.json() raises on a body that is not JSON and
\* data["idToken"] raises on a body without the field, both before print runs;
\* otherwise the script runs off its end and the process exits with 0.
PrintToken ==
    /\ pc = "report"
    /\ IsSuccess(response)
    /\ IF response.data.kind = "token"
       THEN /\ stdout' = Append(stdout, TokenMessage(response.data))
            /\ exitCode' = 0
            /\ UNCHANGED stderr
       ELSE /\ stderr' = Append(stderr,
                    Traceback(IF response.data.kind = "no_token"
                              THEN "KeyError: 'idToken'"
                              ELSE "requests.exceptions.JSONDecodeError"))
            /\ exitCode' = 1
            /\ UNCHANGED stdout
    /\ pc' = "done"
    /\ UNCHANGED <<runs, argv, EMAIL, PASSWORD, response, calls, mode, accounts,
                   provisioned>>

\* Variant of PrintError: without sys.exit(1).
PrintErrorNoExit ==
    /\ pc = "report"
    /\ ~IsSuccess(response)
    /\ stderr' = Append(stderr, ErrorMessage(response))
    /\ exitCode' = 0
    /\ pc' = "done"
    /\ UNCHANGED <<runs, argv, EMAIL, PASSWORD, response, calls, stdout, mode,
                   accounts, provisioned>>

\* Variant of PrintError: the error print without file=sys.stderr.
PrintErrorToStdout ==
    /\ pc = "report"
    /\ ~IsSuccess(response)
    /\ stdout' = Append(stdout, ErrorMessage(response))
    /\ exitCode' = FailureExit
    /\ pc' = "done"
    /\ UNCHANGED <<runs, argv, EMAIL, PASSWORD, response, calls, stderr, mode,
                   accounts, provisioned>>

\* lines 34-36
PrintError ==
    /\ pc = "report"
    /\ ~IsSuccess(response)
    /\ stderr' = Append(stderr, ErrorMessage(response))
    /\ exitCode' = FailureExit
    /\ pc' = "done"
    /\ UNCHANGED <<runs, argv, EMAIL, PASSWORD, response, calls, stdout, mode,
                   accounts, provisioned>>

\* The identity service changes the password of a registered account
\* (another client of the service does it).
ChangePassword ==
    /\ mode = "identity"
    /\ \E e \in Emails, p \in Passwords :
        /\ accounts[e] # Unregistered
        /\ accounts[e] # p
        /\ accounts' = [accounts EXCEPT ![e] = p]
    /\ UNCHANGED <<pc, runs, argv, EMAIL, PASSWORD, response, calls, stdout, stderr,
                   exitCode, mode, provisioned>>

InitRun ==
    /\ pc = "idle"
    /\ runs = 0
    /\ argv = <<Script>>
    /\ EMAIL = ""
    /\ PASSWORD = ""
    /\ response = NoResponse
    /\ calls = << >>
    /\ stdout = << >>
    /\ stderr = << >>
    /\ exitCode = -1
    /\ provisioned = {}

\* The script against mocked endpoints: any reply to any request.
Init ==
    /\ InitRun
    /\ mode = "mock"
    /\ accounts = [e \in Emails |-> Unregistered]

\* The script against an identity service that remembers its accounts.
InitService ==
    /\ InitRun
    /\ mode = "identity"
    /\ accounts \in [Emails -> Passwords \cup {Unregistered}]

Next ==
    \/ Invoke
    \/ CheckArgs
    \/ SignIn
    \/ SignUp
    \/ SkipSignUp
    \/ PrintToken
    \/ PrintError

NextService ==
    \/ Next
    \/ ChangePassword

Spec == Init /\ [][Next]_vars

SpecService == InitService /\ [][NextService]_vars

----------------------------------------------------------------------------
(* Vocabulary of the properties *)

Done == pc = "done"

HasEmail == Len(argv) >= 2

\* The password the invocation asks for: the second argument, or the default.
ArgPassword == IF Len(argv) >= 3 THEN argv[3] ELSE "123456"

Answered(c) == ~c.reply.raised

SignUpCalls == {i \in 1..Len(calls) : calls[i].url = SignUpUrl}

\* The sign-in request got a response, and the fallback branch is behind.
SignInAnswered == Len(calls) >= 1 /\ Answered(calls[1])

FallbackDecided == SignInAnswered /\ pc \in {"report", "done"}

RECURSIVE LineCount(_)
LineCount(writes) ==
    IF writes = << >> THEN 0 ELSE Len(Head(writes)) + LineCount(Tail(writes))

\* A body printed behind the prefix "Error: ".
WithPrefix(body) ==
    [i \in 1..Len(body) |-> IF i = 1 THEN "Error: " \o body[1] ELSE body[i]]

TokenOf(c) == c.reply.data.idToken

CarriesToken(c) == Answered(c) /\ c.reply.status_code = 200 /\ c.reply.data.kind = "token"

----------------------------------------------------------------------------
(* Properties *)

\* C1: when the sign-in response is 200 and carries an idToken T, no request
\* goes to the sign-up endpoint, and the run ends with exactly T on standard
\* output and exit code 0.
C1_SignInSuccess ==
    (Len(calls) >= 1 /\ calls[1].url = SignInUrl /\ CarriesToken(calls[1]))
        => /\ SignUpCalls = {}
           /\ Done => /\ stdout = << <<TokenOf(calls[1])>> >>
                      /\ exitCode = 0

C1_Witness ==
    /\ Done
    /\ Len(calls) = 1
    /\ CarriesToken(calls[1])
    /\ stdout = << <<"T1">> >>
    /\ exitCode = 0

\* C2: when the sign-in response is not 200 and the sign-up response is 200
\* with idToken T2, the run ends with exactly T2 on standard output and exit
\* code 0.
C2_SignUpSuccess ==
    (/\ Done
     /\ Len(calls) = 2
     /\ Answered(calls[1]) /\ calls[1].reply.status_code # 200
     /\ calls[2].url = SignUpUrl /\ CarriesToken(calls[2]))
        => /\ stdout = << <<TokenOf(calls[2])>> >>
           /\ exitCode = 0

C2_Witness ==
    /\ Done
    /\ Len(calls) = 2
    /\ calls[1].reply.status_code = 400
    /\ calls[1].reply.data.kind = "token" /\ TokenOf(calls[1]) = "T1"
    /\ CarriesToken(calls[2]) /\ TokenOf(calls[2]) = "T2"
    /\ stdout = << <<"T2">> >>

\* C3: when both the sign-in and the sign-up responses are not 200, the run
\* ends with exit code 1 and nothing on standard output, and what it wrote to
\* standard error is the body of the sign-up response (behind "Error: ");
\* a different sign-in body is not written.
C3_BothFail ==
    (/\ Done
     /\ Len(calls) = 2
     /\ Answered(calls[1]) /\ calls[1].reply.status_code # 200
     /\ Answered(calls[2]) /\ calls[2].reply.status_code # 200)
        => /\ exitCode = 1
           /\ stdout = << >>
           /\ stderr = <<WithPrefix(calls[2].reply.text)>>
           /\ calls[1].reply.text # calls[2].reply.text
                => \A i \in 1..Len(stderr) : stderr[i] # WithPrefix(calls[1].reply.text)

C3_Witness ==
    /\ Done
    /\ Len(calls) = 2
    /\ calls[1].reply.status_code = 400 /\ calls[1].reply.text = <<"a">>
    /\ calls[2].reply.status_code = 400 /\ calls[2].reply.text = <<"b", "a">>
    /\ stderr = << <<"Error: b", "a">> >>
    /\ exitCode = 1

\* C4: a run without an email argument sends no request at all, and ends
\* with the usage message on standard error and exit code 1.
C4_Usage ==
    (runs >= 1 /\ ~HasEmail)
        => /\ calls = << >>
           /\ stdout = << >>
           /\ pc \in {"check", "done"}
           /\ Done => /\ stderr = << <<"Usage: python3 firebase_signin.py <email> [password]">> >>
                      /\ exitCode = 1

C4_Witness ==
    /\ Done
    /\ runs >= 1
    /\ Len(argv) = 1
    /\ Len(stderr) = 1
    /\ exitCode = 1

\* The three outcomes of a run with an email argument.
SignInSuccess ==
    /\ exitCode = 0
    /\ Len(calls) = 1 /\ calls[1].url = SignInUrl /\ CarriesToken(calls[1])
    /\ stdout = << <<TokenOf(calls[1])>> >>
    /\ stderr = << >>

SignUpSuccess ==
    /\ exitCode = 0
    /\ Len(calls) = 2 /\ calls[2].url = SignUpUrl /\ CarriesToken(calls[2])
    /\ stdout = << <<TokenOf(calls[2])>> >>
    /\ stderr = << >>

Failure ==
    /\ exitCode # 0
    /\ stdout = << >>
    /\ Len(stderr) = 1

OutcomeCount ==
    (IF SignInSuccess THEN 1 ELSE 0) + (IF SignUpSuccess THEN 1 ELSE 0)
        + (IF Failure THEN 1 ELSE 0)

\* C5: a run with an email argument ends in exactly one of sign-in success,
\* sign-up success and failure (a non-zero exit with a diagnostic on standard
\* error and nothing on standard output); the first request is the sign-in,
\* a sign-up request comes only second, and only after a sign-in response
\* that was not a success.
C5_OneOutcome ==
    /\ (Done /\ HasEmail) => OutcomeCount = 1
    /\ Len(calls) <= 2
    /\ Len(calls) >= 1 => calls[1].url = SignInUrl
    /\ \A i \in SignUpCalls :
          /\ i = 2
          /\ Answered(calls[1])
          /\ calls[1].reply.status_code # 200

C5_Witness ==
    /\ Done
    /\ HasEmail
    /\ SignUpSuccess
    /\ calls[1].url = SignInUrl
    /\ calls[1].reply.status_code = 400

\* C6 as stated: a sign-up request is sent exactly when the sign-in status is
\* outside 200..299.
C6_Non2xx ==
    FallbackDecided
        => Cardinality(SignUpCalls)
             = (IF calls[1].reply.status_code \in 200..299 THEN 0 ELSE 1)

\* C6: a sign-up request is sent exactly when the sign-in status is not 200:
\* none for 200, one for every other status, 201 and the rest of 2xx included.
C6_Not200 ==
    /\ FallbackDecided
        => Cardinality(SignUpCalls)
             = (IF calls[1].reply.status_code = 200 THEN 0 ELSE 1)
    /\ (SignInAnswered /\ calls[1].reply.status_code = 200) => SignUpCalls = {}

C6_Witness ==
    /\ FallbackDecided
    /\ calls[1].reply.status_code = 201
    /\ SignUpCalls = {2}

\* C7: every request carries the email argument, the password argument (the
\* literal "123456" when there is none) and returnSecureToken true.
C7_Payload ==
    \A i \in 1..Len(calls) :
        calls[i].json = [email |-> argv[2], password |-> ArgPassword,
                         returnSecureToken |-> TRUE]

C7_Witness ==
    /\ Len(calls) = 2
    /\ Len(argv) = 2
    /\ calls[1].url = SignInUrl /\ calls[1].json.password = "123456"
    /\ calls[2].url = SignUpUrl /\ calls[2].json.password = "123456"

TokenWritten ==
    \E i \in 1..Len(calls) : CarriesToken(calls[i]) /\ stdout = << <<TokenOf(calls[i])>> >>

\* C8 as stated: a finished run has sent at most two requests, has written
\* exactly one line in total, and its exit code is 0 if a token went to
\* standard output and 1 otherwise.
C8_OneLine ==
    Done => /\ Len(calls) <= 2
            /\ LineCount(stdout) + LineCount(stderr) = 1
            /\ exitCode = (IF TokenWritten THEN 0 ELSE 1)

\* C8: a finished run has sent at most two requests and has written exactly
\* one message: the token as one line on standard output with exit code 0,
\* or else, with exit code 1 and nothing on standard output, one message on
\* standard error: the usage line, "Error: " with the raw body of the last
\* response (as many lines as that body has), or a traceback of several lines.
C8_OneMessage ==
    Done => /\ Len(calls) <= 2
            /\ Len(stdout) + Len(stderr) = 1
            /\ exitCode = (IF TokenWritten THEN 0 ELSE 1)
            /\ exitCode = 0 => LineCount(stdout) = 1 /\ stderr = << >>
            /\ exitCode = 1 =>
                /\ stdout = << >>
                /\ LineCount(stderr) =
                     (IF ~HasEmail THEN 1
                      ELSE IF Answered(calls[Len(calls)])
                               /\ calls[Len(calls)].reply.status_code # 200
                           THEN Len(calls[Len(calls)].reply.text)
                           ELSE 2)

C8_Witness ==
    /\ Done
    /\ Len(calls) = 2
    /\ exitCode = 1
    /\ Len(stderr) = 1
    /\ LineCount(stderr) = 2
    /\ calls[2].reply.status_code = 400

C10_MissingToken ==
    (/\ Done
     /\ Len(calls) >= 1
     /\ Answered(calls[Len(calls)])
     /\ calls[Len(calls)].reply.status_code = 200
     /\ calls[Len(calls)].reply.data.kind = "no_token")
        => /\ stdout = << >>
           /\ exitCode # 0
           /\ Len(stderr) = 1
           /\ stderr[1][Len(stderr[1])] = "KeyError: 'idToken'"

C10_Witness ==
    /\ Done
    /\ Len(calls) = 2
    /\ calls[2].url = SignUpUrl
    /\ calls[2].reply.status_code = 200
    /\ calls[2].reply.data.kind = "no_token"
    /\ exitCode = 1

====
